---- MODULE Spec2Model ----
(***************************************************************************)
(* Notes CRUD backend: the validation / data-access module (src/notes.js)  *)
(* and the HTTP route mapping (src/api.js), as a state machine over the    *)
(* notes table, the storage clients and the in-flight requests.            *)
(***************************************************************************)
EXTENDS Integers, Sequences, FiniteSets, TLC

(***************************************************************************)
(* JavaScript values and strings.                                          *)
(*                                                                         *)
(* A string is a sequence of runs [a |-> atom, n |-> count]: atom a        *)
(* repeated n times, adjacent runs holding different atoms (so that equal  *)
(* strings have equal representations).  The atoms are the pieces of text  *)
(* the validator and the sanitizer tell apart.                             *)
(***************************************************************************)
Atoms == {"x", "<", ">", "&lt;", "&gt;", "<!---->", "2023-01-01", "U+1F600"}

\* UTF-16 code units of an atom (String.prototype.length).
Units(a) ==
  CASE a = "&lt;"       -> 4
    [] a = "&gt;"       -> 4
    [] a = "<!---->"    -> 7
    [] a = "2023-01-01" -> 10
    [] a = "U+1F600"    -> 2
    [] OTHER            -> 1

\* Surrogate pairs in an atom: validator.isLength counts each pair once.
SurrogatePairs(a) == IF a = "U+1F600" THEN 1 ELSE 0

Run(a, n) == [a |-> a, n |-> n]

RECURSIVE StrLength(_)
StrLength(s) ==
  IF s = <<>> THEN 0 ELSE Head(s).n * Units(Head(s).a) + StrLength(Tail(s))

RECURSIVE CountPairs(_)
CountPairs(s) ==
  IF s = <<>> THEN 0 ELSE Head(s).n * SurrogatePairs(Head(s).a) + CountPairs(Tail(s))

\* Concatenation that keeps the representation canonical.
Concat(s, t) ==
  IF s = <<>> THEN t
  ELSE IF t = <<>> THEN s
  ELSE IF s[Len(s)].a = t[1].a
       THEN SubSeq(s, 1, Len(s) - 1)
              \o <<Run(t[1].a, s[Len(s)].n + t[1].n)>>
              \o Tail(t)
       ELSE s \o t

\* A JavaScript value: a string, or something that is not a string.
StringValue(s) == [type |-> "string", s |-> s]
Undefined      == [type |-> "undefined", s |-> <<>>]
NumberValue    == [type |-> "number", s |-> <<>>]

TypeofString(v) == v.type = "string"

(***************************************************************************)
(* validator.isLength, validator.isISO8601 and validateNote.               *)
(***************************************************************************)
MinTitleLength == 1
MaxTitleLength == 255

\* Mutant: the upper limit taken as exclusive.
IsLengthExclusive(s, min, max) ==
  LET len == StrLength(s) - CountPairs(s)
  IN  len >= min /\ len < max

\* validator.isLength(str, {min, max}): length less the surrogate pairs.
IsLength(s, min, max) ==
  LET len == StrLength(s) - CountPairs(s)
  IN  len >= min /\ len <= max

\* validator.isISO8601(str): of the strings built from Atoms, the date alone.
IsISO8601(s) == s = <<Run("2023-01-01", 1)>>

TitleError    == [field |-> "title",
                  message |-> "Title must be a string of length 1 to 255 characters"]
TextError     == [field |-> "text", message |-> "Text must be a string"]
DatetimeError == [field |-> "datetime", message |-> "Datetime must be a ISO 8601 date"]

ValidateNote(note) ==
  LET e0 == <<>>
      e1 == IF ~TypeofString(note.title)
               \/ ~IsLength(note.title.s, MinTitleLength, MaxTitleLength)
            THEN Append(e0, TitleError) ELSE e0
      e2 == IF ~TypeofString(note.text)
            THEN Append(e1, TextError) ELSE e1
      e3 == IF ~TypeofString(note.datetime) \/ ~IsISO8601(note.datetime.s)
            THEN Append(e2, DatetimeError) ELSE e2
  IN  e3

(***************************************************************************)
(* xss(html) with the default options: comments are stripped, then every   *)
(* "<" and ">" that is not part of a whitelisted tag is escaped.  No       *)
(* string built from Atoms holds a whitelisted tag.                        *)
(***************************************************************************)
XssAtom(a) ==
  CASE a = "<"       -> "&lt;"
    [] a = ">"       -> "&gt;"
    [] OTHER         -> a

RECURSIVE Xss(_)
Xss(s) ==
  IF s = <<>> THEN <<>>
  ELSE IF Head(s).a = "<!---->" THEN Xss(Tail(s))
  ELSE Concat(<<Run(XssAtom(Head(s).a), Head(s).n)>>, Xss(Tail(s)))

(***************************************************************************)
(* The notes table and the five parameterized statements.  A statement is  *)
(* atomic at the store; it yields the new table and the driver's result    *)
(* (rows, rowCount).                                                       *)
(***************************************************************************)
Row(id, values) ==
  [id |-> id, title |-> values[1], text |-> values[2], datetime |-> values[3]]

\* INSERT INTO notes(title, text, datetime) VALUES($1, $2, $3) RETURNING *
InsertStmt(table, serial, values) ==
  LET row == Row(serial, values)
  IN  [table |-> table \cup {row}, rows |-> {row}, rowCount |-> 1]

\* SELECT id, title, text, datetime FROM notes
SelectAllStmt(table) ==
  [table |-> table, rows |-> table, rowCount |-> Cardinality(table)]

\* SELECT id, title, text, datetime FROM notes WHERE id = $1
SelectOneStmt(table, id) ==
  LET hit == {r \in table : r.id = id}
  IN  [table |-> table, rows |-> hit, rowCount |-> Cardinality(hit)]

\* Mutant: the WHERE clause left out.
UpdateStmtAll(table, values, id) ==
  LET upd == {Row(r.id, values) : r \in table}
  IN  [table |-> upd, rows |-> upd, rowCount |-> Cardinality(table)]

\* Mutant: a row is inserted when none has the id.
UpdateStmtUpsert(table, values, id) ==
  LET hit == {r \in table : r.id = id}
      upd == {Row(id, values)}
  IN  [table |-> (table \ hit) \cup upd, rows |-> upd, rowCount |-> 1]

\* UPDATE notes SET title = $1, text = $2, datetime = $3 WHERE id = $4 RETURNING *
UpdateStmt(table, values, id) ==
  LET hit == {r \in table : r.id = id}
      upd == {Row(r.id, values) : r \in hit}
  IN  [table |-> (table \ hit) \cup upd, rows |-> upd, rowCount |-> Cardinality(hit)]

\* DELETE FROM notes WHERE id = $1
DeleteStmt(table, id) ==
  LET hit == {r \in table : r.id = id}
  IN  [table |-> table \ hit, rows |-> {}, rowCount |-> Cardinality(hit)]

(***************************************************************************)
(* Return values of the data-access functions (src/notes.js).              *)
(***************************************************************************)
Null         == [null |-> TRUE]
UndefinedRow == [undefined |-> TRUE]
NoResult     == [rows |-> {}, rowCount |-> 0]

\* result.rows[0]
FirstRow(rows) == IF rows = {} THEN UndefinedRow ELSE CHOOSE r \in rows : TRUE

Truthy(v) == v \notin {Null, UndefinedRow}

\* Mutant: the raw fields are stored.
CleanValuesRaw(note) == <<note.title.s, note.text.s, note.datetime.s>>

\* const cleanTitle = xss(title); ... values = [cleanTitle, cleanText, cleanDatetime]
CleanValues(note) == <<Xss(note.title.s), Xss(note.text.s), Xss(note.datetime.s)>>

CreateInvalid(validation) ==
  [success |-> FALSE, validation |-> validation, item |-> Null]

CreateReturn(result) ==
  [success |-> TRUE, validation |-> <<>>, item |-> FirstRow(result.rows)]

ReadAllReturn(result) == [notes |-> result.rows]

ReadOneReturn(result) ==
  [note |-> IF Cardinality(result.rows) = 0 THEN Null ELSE FirstRow(result.rows)]

UpdateInvalid(validation) == [success |-> FALSE, validation |-> validation]

UpdateReturn(result) ==
  IF result.rowCount = 0
  THEN [success |-> FALSE, validation |-> <<>>, notFound |-> TRUE]
  ELSE [success |-> TRUE, validation |-> <<>>, item |-> FirstRow(result.rows)]

\* Mutant: any statement that ran counts as a deletion.
DelReturnAny(result) == [deleted |-> result.rowCount >= 0]

DelReturn(result) == [deleted |-> result.rowCount = 1]

(***************************************************************************)
(* Responses of the route handlers (src/api.js).                           *)
(***************************************************************************)
NoResponse == [status |-> 0, body |-> [none |-> TRUE]]
NotFoundBody == [error |-> "Note not found"]

NotesRouteResponse(ret) == [status |-> 200, body |-> [notes |-> ret.notes]]

CreateRouteResponse(ret) ==
  IF ~ret.success
  THEN [status |-> 400, body |-> [errors |-> ret.validation]]
  ELSE [status |-> 201, body |-> ret.item]

NoteRouteResponse(ret) ==
  IF Truthy(ret.note)
  THEN [status |-> 200, body |-> ret.note]
  ELSE [status |-> 404, body |-> NotFoundBody]

\* Mutant: the not-found branch left out.
PutRouteResponseNoNotFound(ret) ==
  IF ~ret.success /\ Len(ret.validation) > 0
  THEN [status |-> 400, body |-> [errors |-> ret.validation]]
  ELSE [status |-> 201,
        body |-> IF "item" \in DOMAIN ret THEN ret.item ELSE UndefinedRow]

PutRouteResponse(ret) ==
  IF ~ret.success /\ Len(ret.validation) > 0
  THEN [status |-> 400, body |-> [errors |-> ret.validation]]
  ELSE IF ~ret.success /\ "notFound" \in DOMAIN ret /\ ret.notFound
  THEN [status |-> 404, body |-> NotFoundBody]
  ELSE [status |-> 201,
        body |-> IF "item" \in DOMAIN ret THEN ret.item ELSE UndefinedRow]

DeleteRouteResponse(ret) ==
  IF ret.deleted
  THEN [status |-> 204, body |-> [empty |-> TRUE]]
  ELSE [status |-> 404, body |-> NotFoundBody]

(***************************************************************************)
(* Bounds and request inputs.                                              *)
(***************************************************************************)
MaxRequests == 3   \* requests issued in a run
MaxId       == 2   \* ids the store hands out, and ids a request may name

\* Two request slots: a request runs alone or races with one other.
Tasks == {1, 2}
Ids   == 1..MaxId

Note(title, text, datetime) == [title |-> title, text |-> text, datetime |-> datetime]

IsoDate == StringValue(<<Run("2023-01-01", 1)>>)

\* A body with no fields: every field reads as undefined.
NoBody == Note(Undefined, Undefined, Undefined)

\* {title: "<x>", text: "<", datetime: "2023-01-01"}
MarkupNote ==
  Note(StringValue(<<Run("<", 1), Run("x", 1), Run(">", 1)>>),
       StringValue(<<Run("<", 1)>>), IsoDate)

\* {title: "<!---->", text: "", datetime: "2023-01-01"}
CommentNote == Note(StringValue(<<Run("<!---->", 1)>>), StringValue(<<>>), IsoDate)

\* {title: "x", text: "x", datetime: "x"}
BadDateNote ==
  Note(StringValue(<<Run("x", 1)>>), StringValue(<<Run("x", 1)>>),
       StringValue(<<Run("x", 1)>>))

\* {title: "<" repeated 255 times, text: "x", datetime: "2023-01-01"}
LongNote ==
  Note(StringValue(<<Run("<", MaxTitleLength)>>), StringValue(<<Run("x", 1)>>), IsoDate)

Bodies == {MarkupNote, CommentNote, LongNote, BadDateNote, NoBody}

\* Inputs of the validator runs.
TitleInputs ==
  {Undefined, NumberValue, IsoDate} \cup
  {StringValue(s) : s \in
     {<<>>, <<Run("x", 1)>>, <<Run("x", MaxTitleLength)>>,
      <<Run("x", MaxTitleLength + 1)>>, <<Run("<", MaxTitleLength)>>,
      <<Run("<!---->", 1)>>, <<Run("x", MaxTitleLength), Run(">", 1)>>,
      <<Run("U+1F600", MaxTitleLength)>>, <<Run("U+1F600", MaxTitleLength + 1)>>}}

TextInputs ==
  {Undefined, NumberValue, IsoDate} \cup
  {StringValue(s) : s \in {<<>>, <<Run("x", MaxTitleLength + 1)>>, <<Run("<", 1)>>}}

DatetimeInputs ==
  {Undefined, NumberValue, IsoDate} \cup
  {StringValue(s) : s \in
     {<<>>, <<Run("x", 1)>>, <<Run("2023-01-01", 2)>>,
      <<Run("<", 1), Run("2023-01-01", 1), Run(">", 1)>>,
      <<Run("<!---->", 1), Run("2023-01-01", 1)>>}}

(***************************************************************************)
(* State.                                                                  *)
(***************************************************************************)
VARIABLES
  notes,       \* the notes table: a set of rows
  nextId,      \* the store's id sequence
  task,        \* the requests in flight, by slot
  issued,      \* requests issued so far
  unreleased,  \* clients created by query() and not yet ended
  wrote,       \* history: per id, the raw note of the last statement that wrote its row
  delTrue,     \* history: per id, how many del calls returned true
  vInput,      \* validator run: the note given to validateNote
  vErrors,     \* validator run: the errors returned
  vDone        \* validator run: validateNote has returned

vars == <<notes, nextId, task, issued, unreleased, wrote, delTrue,
          vInput, vErrors, vDone>>

NotWritten == [by |-> "none", raw |-> NoBody]

\* A request slot.  hit and seen are history: whether the request's id named a row,
\* and who wrote that row last, when its statement ran (or when it was rejected).
IdleTask ==
  [pc |-> "idle", route |-> "", id |-> 0, body |-> NoBody, values |-> <<>>,
   client |-> "none", opened |-> 0, executed |-> 0, logged |-> <<>>,
   thrown |-> "", hit |-> FALSE, seen |-> NotWritten, result |-> NoResult, ret |-> Null,
   response |-> NoResponse, nextErr |-> ""]

Init ==
  /\ notes = {}
  /\ nextId = 1
  /\ task = [t \in Tasks |-> IdleTask]
  /\ issued = 0
  /\ unreleased = 0
  /\ wrote = [i \in Ids |-> NotWritten]
  /\ delTrue = [i \in Ids |-> 0]
  /\ vInput = NoBody
  /\ vErrors = <<>>
  /\ vDone = FALSE

\* A new request takes the lowest free slot.
FreeSlot(t) ==
  /\ task[t].pc = "idle"
  /\ \A u \in Tasks : u < t => task[u].pc # "idle"
  /\ issued < MaxRequests

\* Inserts still to come from requests already accepted.
PendingInserts ==
  Cardinality({t \in Tasks : task[t].route = "POST"
                             /\ task[t].pc \in {"connecting", "querying"}})

(***************************************************************************)
(* query(sqlQuery, values): new Client, connect, one statement, end.       *)
(***************************************************************************)
\* const client = new Client(...); await client.connect();
QueryStart(t, route, id, body, values) ==
  /\ task' = [task EXCEPT ![t] =
                [IdleTask EXCEPT !.pc = "connecting", !.route = route, !.id = id,
                                 !.body = body, !.values = values,
                                 !.client = "new", !.opened = 1]]
  /\ unreleased' = unreleased + 1
  /\ issued' = issued + 1
  /\ UNCHANGED <<notes, nextId, wrote, delTrue, vInput, vErrors, vDone>>

\* A validation failure: the data function returns at once, the route answers.
Rejected(t, route, id, body, ret, response) ==
  /\ task' = [task EXCEPT ![t] =
                [IdleTask EXCEPT !.pc = "done", !.route = route, !.id = id,
                                 !.body = body, !.ret = ret,
                                 !.hit = \E n \in notes : n.id = id,
                                 !.response = response]]
  /\ issued' = issued + 1
  /\ UNCHANGED <<notes, nextId, unreleased, wrote, delTrue,
                 vInput, vErrors, vDone>>

\* GET /
NotesRequest(t) ==
  /\ FreeSlot(t)
  /\ QueryStart(t, "GET /", 0, NoBody, <<>>)

\* POST /
CreateRequest(t, body) ==
  /\ FreeSlot(t)
  /\ LET validation == ValidateNote(body)
     IN  IF Len(validation) > 0
         THEN Rejected(t, "POST", 0, body, CreateInvalid(validation),
                       CreateRouteResponse(CreateInvalid(validation)))
         ELSE /\ nextId + PendingInserts <= MaxId
              /\ QueryStart(t, "POST", 0, body, CleanValues(body))

\* GET /:id
NoteRequest(t, id) ==
  /\ FreeSlot(t)
  /\ QueryStart(t, "GET", id, NoBody, <<>>)

\* Mutant: the validation result is not looked at.
PutRequestUnchecked(t, id, body) ==
  /\ FreeSlot(t)
  /\ QueryStart(t, "PUT", id, body, CleanValues(body))

\* PUT /:id
PutRequest(t, id, body) ==
  /\ FreeSlot(t)
  /\ LET validation == ValidateNote(body)
     IN  IF Len(validation) > 0
         THEN Rejected(t, "PUT", id, body, UpdateInvalid(validation),
                       PutRouteResponse(UpdateInvalid(validation)))
         ELSE QueryStart(t, "PUT", id, body, CleanValues(body))

\* DELETE /:id
DeleteRequest(t, id) ==
  /\ FreeSlot(t)
  /\ QueryStart(t, "DELETE", id, NoBody, <<>>)

\* client.connect() resolves; client.query(sqlQuery, values) is sent.
Connected(t) ==
  /\ task[t].pc = "connecting"
  /\ task' = [task EXCEPT ![t].pc = "querying", ![t].client = "connected"]
  /\ UNCHANGED <<notes, nextId, issued, unreleased, wrote, delTrue,
                 vInput, vErrors, vDone>>

\* client.connect() rejects: outside the try, so query() rejects at once and the
\* rejection reaches catchErrors' .catch(next).
ConnectFailed(t) ==
  /\ task[t].pc = "connecting"
  /\ task' = [task EXCEPT ![t].pc = "done", ![t].thrown = "ECONNREFUSED",
                          ![t].nextErr = "ECONNREFUSED"]
  /\ UNCHANGED <<notes, nextId, issued, unreleased, wrote, delTrue,
                 vInput, vErrors, vDone>>

\* The statement of a request, run on the table.
Statement(t) ==
  CASE task[t].route = "GET /"  -> SelectAllStmt(notes)
    [] task[t].route = "POST"   -> InsertStmt(notes, nextId, task[t].values)
    [] task[t].route = "GET"    -> SelectOneStmt(notes, task[t].id)
    [] task[t].route = "PUT"    -> UpdateStmt(notes, task[t].values, task[t].id)
    [] task[t].route = "DELETE" -> DeleteStmt(notes, task[t].id)

\* result = await client.query(sqlQuery, values) resolves.
Executed(t) ==
  /\ task[t].pc = "querying"
  /\ LET r == Statement(t)
     IN  /\ notes' = r.table
         /\ nextId' = IF task[t].route = "POST" THEN nextId + 1 ELSE nextId
         /\ task' = [task EXCEPT ![t].pc = "ending",
                                 ![t].executed = task[t].executed + 1,
                                 ![t].hit = \E n \in notes : n.id = task[t].id,
                                 ![t].seen = IF task[t].id \in Ids
                                             THEN wrote[task[t].id] ELSE NotWritten,
                                 ![t].result = [rows |-> r.rows, rowCount |-> r.rowCount]]
         /\ wrote' =
              CASE task[t].route = "POST" ->
                     [wrote EXCEPT ![nextId] = [by |-> "create", raw |-> task[t].body]]
                [] task[t].route = "PUT" /\ r.rowCount > 0 ->
                     [wrote EXCEPT ![task[t].id] = [by |-> "update", raw |-> task[t].body]]
                [] OTHER -> wrote
  /\ UNCHANGED <<issued, unreleased, delTrue, vInput, vErrors, vDone>>

\* client.query rejects: catch logs the error and rethrows it.
ExecuteFailed(t) ==
  /\ task[t].pc = "querying"
  /\ task' = [task EXCEPT ![t].pc = "ending",
                          ![t].executed = task[t].executed + 1,
                          ![t].logged = Append(task[t].logged, "EQUERY"),
                          ![t].thrown = "EQUERY"]
  /\ UNCHANGED <<notes, nextId, issued, unreleased, wrote, delTrue,
                 vInput, vErrors, vDone>>

\* What the data function returns from the statement's result.
Return(route, result) ==
  CASE route = "GET /"  -> ReadAllReturn(result)
    [] route = "POST"   -> CreateReturn(result)
    [] route = "GET"    -> ReadOneReturn(result)
    [] route = "PUT"    -> UpdateReturn(result)
    [] route = "DELETE" -> DelReturn(result)

\* What the route handler answers.
Respond(route, ret) ==
  CASE route = "GET /"  -> NotesRouteResponse(ret)
    [] route = "POST"   -> CreateRouteResponse(ret)
    [] route = "GET"    -> NoteRouteResponse(ret)
    [] route = "PUT"    -> PutRouteResponse(ret)
    [] route = "DELETE" -> DeleteRouteResponse(ret)

\* finally { await client.end() }; then query() returns or rethrows, the data
\* function returns, and the handler answers or its rejection goes to next().
Ended(t) ==
  /\ task[t].pc = "ending"
  /\ unreleased' = unreleased - 1
  /\ IF task[t].thrown # ""
     THEN /\ task' = [task EXCEPT ![t].pc = "done", ![t].client = "ended",
                                  ![t].nextErr = task[t].thrown]
          /\ UNCHANGED delTrue
     ELSE LET ret == Return(task[t].route, task[t].result)
          IN  /\ task' = [task EXCEPT ![t].pc = "done", ![t].client = "ended",
                                      ![t].ret = ret,
                                      ![t].response = Respond(task[t].route, ret)]
              /\ delTrue' = IF task[t].route = "DELETE" /\ ret.deleted
                            THEN [delTrue EXCEPT ![task[t].id] = @ + 1]
                            ELSE delTrue
  /\ UNCHANGED <<notes, nextId, issued, wrote, vInput, vErrors, vDone>>

\* The request is over; its slot is free again.
Release(t) ==
  /\ task[t].pc = "done"
  /\ task' = [task EXCEPT ![t] = IdleTask]
  /\ UNCHANGED <<notes, nextId, issued, unreleased, wrote, delTrue,
                 vInput, vErrors, vDone>>

Next ==
  \/ \E t \in Tasks : NotesRequest(t)
  \/ \E t \in Tasks, body \in Bodies : CreateRequest(t, body)
  \/ \E t \in Tasks, id \in Ids : NoteRequest(t, id)
  \/ \E t \in Tasks, id \in Ids, body \in Bodies : PutRequest(t, id, body)
  \/ \E t \in Tasks, id \in Ids : DeleteRequest(t, id)
  \/ \E t \in Tasks : Connected(t)
  \/ \E t \in Tasks : ConnectFailed(t)
  \/ \E t \in Tasks : Executed(t)
  \/ \E t \in Tasks : ExecuteFailed(t)
  \/ \E t \in Tasks : Ended(t)
  \/ \E t \in Tasks : Release(t)

Spec == Init /\ [][Next]_vars

(***************************************************************************)
(* Validator runs: validateNote applied to one input.                      *)
(***************************************************************************)
InitV ==
  /\ notes = {}
  /\ nextId = 1
  /\ task = [t \in Tasks |-> IdleTask]
  /\ issued = 0
  /\ unreleased = 0
  /\ wrote = [i \in Ids |-> NotWritten]
  /\ delTrue = [i \in Ids |-> 0]
  /\ vInput \in {Note(ti, te, da) :
                    ti \in TitleInputs, te \in TextInputs, da \in DatetimeInputs}
  /\ vErrors = <<>>
  /\ vDone = FALSE

Validate ==
  /\ ~vDone
  /\ vErrors' = ValidateNote(vInput)
  /\ vDone' = TRUE
  /\ UNCHANGED <<notes, nextId, task, issued, unreleased, wrote, delTrue, vInput>>

NextV == Validate

SpecV == InitV /\ [][NextV]_vars

(***************************************************************************)
(* Properties.                                                             *)
(***************************************************************************)
Finished(t) == task[t].pc = "done"
NoFault(t)  == task[t].thrown = ""
Valid(body) == ValidateNote(body) = <<>>
Sanitized(raw) == <<Xss(raw.title.s), Xss(raw.text.s), Xss(raw.datetime.s)>>
RowOf(id) == {r \in notes : r.id = id}

\* Slot t takes a request in this step.
Called(t) == task[t].pc = "idle" /\ task'[t].pc # "idle"
\* The statement of slot t's request runs in this step.
Ran(t) == task[t].pc = "querying" /\ task'[t].pc = "ending" /\ task'[t].thrown = ""

\* C1: a create or update call whose validation list is non-empty opens no
\* client and executes no statement, leaves the notes table as it was, and
\* returns success:false with that list; the route answers 400 with the list.
C1_Step ==
  \A t \in Tasks :
    (/\ Called(t)
     /\ task'[t].route \in {"POST", "PUT"}
     /\ Len(ValidateNote(task'[t].body)) > 0)
    => /\ notes' = notes
       /\ nextId' = nextId
       /\ unreleased' = unreleased
       /\ task'[t].pc = "done"
       /\ task'[t].opened = 0
       /\ task'[t].executed = 0
       /\ task'[t].client = "none"
       /\ task'[t].ret.success = FALSE
       /\ task'[t].ret.validation = ValidateNote(task'[t].body)
       /\ task'[t].response =
            [status |-> 400, body |-> [errors |-> ValidateNote(task'[t].body)]]

C1_Rejected == [][C1_Step]_vars

\* An update of an existing row was rejected for its datetime alone.
C1_Witness ==
  \E t \in Tasks :
    /\ Finished(t)
    /\ task[t].route = "PUT"
    /\ task[t].body = BadDateNote
    /\ task[t].hit
    /\ task[t].response.status = 400
    /\ task[t].ret.validation = <<DatetimeError>>

\* C2 as stated: every GET /:id, PUT /:id and DELETE /:id whose id matches no
\* row, and whose storage call does not fault, is answered 404 with
\* {error: "Note not found"}, whatever the request body is.
C2_Original ==
  \A t \in Tasks :
    (/\ Finished(t)
     /\ task[t].route \in {"GET", "PUT", "DELETE"}
     /\ NoFault(t)
     /\ ~task[t].hit)
    => task[t].response = [status |-> 404, body |-> NotFoundBody]

\* C2 amended: every GET /:id and DELETE /:id, and every PUT /:id whose body
\* passes validation, whose id matches no row and whose storage call does not
\* fault, is answered 404 with {error: "Note not found"}; a PUT whose body
\* fails validation is answered 400 with the validation list instead.
C2_NotFound ==
  \A t \in Tasks :
    (/\ Finished(t)
     /\ task[t].route \in {"GET", "PUT", "DELETE"}
     /\ NoFault(t)
     /\ ~task[t].hit)
    => IF task[t].route = "PUT" /\ ~Valid(task[t].body)
       THEN task[t].response =
              [status |-> 400, body |-> [errors |-> ValidateNote(task[t].body)]]
       ELSE task[t].response = [status |-> 404, body |-> NotFoundBody]

\* A valid PUT of an id that was deleted answered 404.
C2_Witness ==
  \E t \in Tasks :
    /\ Finished(t)
    /\ task[t].route = "PUT"
    /\ Valid(task[t].body)
    /\ NoFault(t)
    /\ ~task[t].hit
    /\ task[t].executed = 1
    /\ task[t].id < nextId
    /\ task[t].response.status = 404

\* C3: every call of query() creates one fresh client, executes at most one
\* statement on it and ends it on every exit path (return, query failure,
\* connection failure), so with no call in flight no client is left unreleased.
C3_Released ==
  /\ \A t \in Tasks :
       (Finished(t) /\ task[t].opened > 0)
       => /\ task[t].opened = 1
          /\ task[t].executed <= 1
          /\ task[t].client = "ended"
  /\ (\A t \in Tasks : task[t].pc \in {"idle", "done"}) => unreleased = 0

\* C4: a storage fault, of the connection or of the statement, is logged in
\* query() exactly once and rethrown unchanged with no retry; the handler
\* sends no response and the same error reaches next().
C4_Fault ==
  \A t \in Tasks :
    (Finished(t) /\ ~NoFault(t))
    => /\ task[t].logged = <<task[t].thrown>>
       /\ task[t].executed <= 1
       /\ task[t].response = NoResponse
       /\ task[t].nextErr = task[t].thrown

\* C5: a create of a valid note that returns, returns success:true with an
\* item carrying an id of the store's sequence and the sanitized fields; a
\* readOne of an id whose row was written by its create alone returns the
\* sanitizer's output on the three inputs of that create.
C5_RoundTrip ==
  \A t \in Tasks :
    /\ (Finished(t) /\ NoFault(t) /\ task[t].route = "POST" /\ Valid(task[t].body))
       => /\ task[t].ret.success
          /\ task[t].ret.validation = <<>>
          /\ task[t].ret.item \in {Row(i, Sanitized(task[t].body)) : i \in 1..(nextId - 1)}
          /\ task[t].response = [status |-> 201, body |-> task[t].ret.item]
    /\ (/\ Finished(t) /\ NoFault(t) /\ task[t].route = "GET"
        /\ task[t].hit /\ task[t].seen.by = "create")
       => /\ task[t].ret.note = Row(task[t].id, Sanitized(task[t].seen.raw))
          /\ task[t].response = [status |-> 200, body |-> task[t].ret.note]

\* A note whose sanitized fields differ from its raw fields was read back.
C5_Witness ==
  \E t \in Tasks :
    /\ Finished(t) /\ NoFault(t) /\ task[t].route = "GET"
    /\ task[t].hit
    /\ task[t].seen = [by |-> "create", raw |-> MarkupNote]
    /\ task[t].ret.note.title = <<Run("&lt;", 1), Run("x", 1), Run("&gt;", 1)>>
    /\ task[t].ret.note.title # MarkupNote.title.s

\* C6: del(id) on an id with no row returns false and leaves the table as it
\* was; on an existing id it returns true and removes exactly that row, every
\* other row staying as it was, and a readOne(id) that follows returns null.
C6_Step ==
  \A t \in Tasks :
    /\ (Ran(t) /\ task[t].route = "DELETE")
       => IF RowOf(task[t].id) = {}
          THEN /\ notes' = notes
               /\ DelReturn(task'[t].result).deleted = FALSE
          ELSE /\ notes' = notes \ RowOf(task[t].id)
               /\ Cardinality(notes') = Cardinality(notes) - 1
               /\ DelReturn(task'[t].result).deleted = TRUE
               /\ ReadOneReturn(SelectOneStmt(notes', task[t].id)).note = Null
    /\ (task[t].pc = "ending" /\ task'[t].pc = "done" /\ task[t].route = "DELETE"
        /\ task[t].thrown = "")
       => /\ task'[t].ret = DelReturn(task[t].result)
          /\ task'[t].ret.deleted = task[t].hit
          /\ notes' = notes
    /\ (Ran(t) /\ task[t].route = "GET" /\ delTrue[task[t].id] > 0)
       => ReadOneReturn(task'[t].result).note = Null

C6_Del == [][C6_Step]_vars

\* A del of one of two rows returned true; the other row is still there.
C6_Witness ==
  \E t \in Tasks :
    /\ Finished(t) /\ NoFault(t) /\ task[t].route = "DELETE"
    /\ task[t].hit
    /\ task[t].ret.deleted
    /\ delTrue[task[t].id] = 1
    /\ RowOf(task[t].id) = {}
    /\ Cardinality(notes) = 1

\* C7: every row of the notes table has its four fields, its title, text and
\* datetime are the sanitizer's output on the note last written to it, and its
\* stored title has a length between 1 and 255.
C7_Stored ==
  \A r \in notes :
    /\ DOMAIN r = {"id", "title", "text", "datetime"}
    /\ wrote[r.id].by # "none"
    /\ r = Row(r.id, Sanitized(wrote[r.id].raw))
    /\ StrLength(r.title) - CountPairs(r.title) >= MinTitleLength
    /\ StrLength(r.title) - CountPairs(r.title) <= MaxTitleLength

\* C8: validateNote returns one error per failing field, in the order title,
\* text, datetime: a title error iff the title is not a string or its length
\* is outside [1,255], a text error iff the text is not a string, a datetime
\* error iff the datetime is not a string or not ISO 8601.
C8_TitleFails(n) ==
  \/ n.title.type # "string"
  \/ StrLength(n.title.s) - CountPairs(n.title.s) < 1
  \/ StrLength(n.title.s) - CountPairs(n.title.s) > 255
C8_TextFails(n) == n.text.type # "string"
C8_DatetimeFails(n) ==
  \/ n.datetime.type # "string"
  \/ n.datetime.s # <<Run("2023-01-01", 1)>>

C8_Validation ==
  vDone =>
    /\ vErrors =
         (IF C8_TitleFails(vInput) THEN <<TitleError>> ELSE <<>>)
         \o (IF C8_TextFails(vInput) THEN <<TextError>> ELSE <<>>)
         \o (IF C8_DatetimeFails(vInput) THEN <<DatetimeError>> ELSE <<>>)
    /\ (vErrors = <<>>) <=> ~(\/ C8_TitleFails(vInput)
                              \/ C8_TextFails(vInput)
                              \/ C8_DatetimeFails(vInput))

\* All three fields failed, and the three errors came back in order.
C8_Witness ==
  /\ vDone
  /\ vInput.title = StringValue(<<Run("x", MaxTitleLength + 1)>>)
  /\ vInput.text = NumberValue
  /\ vInput.datetime = StringValue(<<Run("2023-01-01", 2)>>)
  /\ vErrors = <<TitleError, TextError, DatetimeError>>

\* C9: no two rows share an id, and an update changes no row's id: the item
\* it returns on success has the id it was called with and no other row is
\* modified.
C9_Unique == \A r1, r2 \in notes : r1.id = r2.id => r1 = r2

C9_Step ==
  \A t \in Tasks :
    (Ran(t) /\ task[t].route = "PUT")
    => /\ {r.id : r \in notes'} = {r.id : r \in notes}
       /\ \A r \in notes : r.id # task[t].id => r \in notes'
       /\ \A r \in notes' : r.id # task[t].id => r \in notes
       /\ nextId' = nextId
       /\ UpdateReturn(task'[t].result).success
          => UpdateReturn(task'[t].result).item.id = task[t].id

C9_Ids == []C9_Unique /\ [][C9_Step]_vars

\* An update changed one of two rows.
C9_Witness ==
  /\ Cardinality(notes) = 2
  /\ \E t \in Tasks :
       /\ Finished(t) /\ NoFault(t) /\ task[t].route = "PUT"
       /\ task[t].ret.success
       /\ task[t].ret.item.id = task[t].id
       /\ wrote[task[t].id].by = "update"

\* C10: racing valid updates and dels of one id are last-write-wins: an update
\* whose statement finds the row reports success and the row holds the
\* sanitized fields of the update that ran last; an update whose statement
\* runs after a del's reports notFound and creates no row; of two dels of an
\* existing id exactly one returns true.
C10_State ==
  /\ \A r \in notes : r = Row(r.id, CleanValues(wrote[r.id].raw))
  /\ \A i \in Ids : delTrue[i] <= 1
  /\ \A t \in Tasks :
       (Finished(t) /\ NoFault(t) /\ task[t].route = "PUT" /\ Valid(task[t].body))
       => IF task[t].hit
          THEN /\ task[t].ret.success
               /\ task[t].ret.item = Row(task[t].id, CleanValues(task[t].body))
          ELSE task[t].ret = [success |-> FALSE, validation |-> <<>>, notFound |-> TRUE]
  /\ \A t, u \in Tasks :
       (/\ t # u
        /\ Finished(t) /\ NoFault(t) /\ task[t].route = "DELETE"
        /\ Finished(u) /\ NoFault(u) /\ task[u].route = "DELETE"
        /\ task[t].id = task[u].id
        /\ (task[t].hit \/ task[u].hit))
       => task[t].ret.deleted # task[u].ret.deleted

C10_Step ==
  \A t \in Tasks :
    (Ran(t) /\ task[t].route = "PUT")
    => IF RowOf(task[t].id) = {}
       THEN notes' = notes
       ELSE /\ wrote'[task[t].id] = [by |-> "update", raw |-> task[t].body]
            /\ RowOf(task[t].id)' = {Row(task[t].id, task[t].values)}

C10_LastWriteWins == []C10_State /\ [][C10_Step]_vars

\* Two updates of one row are in flight together, both statements have run and
\* both found the row; the row holds the fields of the one that ran last, which
\* differ from the other's.
C10_Witness ==
  /\ task[1].pc = "ending" /\ NoFault(1) /\ task[1].route = "PUT"
  /\ task[2].pc = "ending" /\ NoFault(2) /\ task[2].route = "PUT"
  /\ task[1].id = task[2].id
  /\ task[1].body # task[2].body
  /\ UpdateReturn(task[1].result).success /\ UpdateReturn(task[2].result).success
  /\ wrote[task[1].id].raw = task[2].body
  /\ RowOf(task[1].id) = {UpdateReturn(task[2].result).item}
  /\ UpdateReturn(task[1].result).item # UpdateReturn(task[2].result).item

====
